---- MODULE Spec2Model ----
(***************************************************************************)
(* ClientParser: a periodic collector that reads DHCP leases and DNS       *)
(* records from external commands and writes them to database tables.      *)
(*                                                                         *)
(* A Python str is modelled as a sequence of one-character strings, so     *)
(* that split, strip, upper, lower, slicing and len are computed as the    *)
(* code computes them.                                                     *)
(***************************************************************************)
EXTENDS Integers, Sequences, FiniteSets, TLC

(***************************************************************************)
(* Python str methods used by the code.                                    *)
(***************************************************************************)
LowerAlpha == <<"a", "b", "c", "d", "e", "f", "g", "h", "i", "j", "k", "l", "m",
                "n", "o", "p", "q", "r", "s", "t", "u", "v", "w", "x", "y", "z">>

UpperAlpha == <<"A", "B", "C", "D", "E", "F", "G", "H", "I", "J", "K", "L", "M",
                "N", "O", "P", "Q", "R", "S", "T", "U", "V", "W", "X", "Y", "Z">>

IndexIn(c, alpha) == IF \E i \in 1..Len(alpha) : alpha[i] = c
                     THEN CHOOSE i \in 1..Len(alpha) : alpha[i] = c
                     ELSE 0

UpperChar(c) == IF IndexIn(c, LowerAlpha) = 0 THEN c ELSE UpperAlpha[IndexIn(c, LowerAlpha)]

LowerChar(c) == IF IndexIn(c, UpperAlpha) = 0 THEN c ELSE LowerAlpha[IndexIn(c, UpperAlpha)]

\* str.upper()
Upper(s) == [i \in 1..Len(s) |-> UpperChar(s[i])]

\* str.lower()
Lower(s) == [i \in 1..Len(s) |-> LowerChar(s[i])]

IsSpace(c) == c \in {" ", "\t"}

RECURSIVE LStrip(_)
LStrip(s) == IF s # <<>> /\ IsSpace(Head(s)) THEN LStrip(Tail(s)) ELSE s

RECURSIVE RStrip(_)
RStrip(s) == IF s # <<>> /\ IsSpace(s[Len(s)]) THEN RStrip(SubSeq(s, 1, Len(s) - 1)) ELSE s

\* str.strip()
Strip(s) == RStrip(LStrip(s))

\* str.startswith(p)
StartsWith(s, p) == Len(s) >= Len(p) /\ SubSeq(s, 1, Len(p)) = p

\* str.endswith(p)
EndsWith(s, p) == Len(s) >= Len(p) /\ SubSeq(s, Len(s) - Len(p) + 1, Len(s)) = p

\* s[:-n] for n > 0
DropLast(s, n) == IF Len(s) > n THEN SubSeq(s, 1, Len(s) - n) ELSE <<>>

\* str.split(c) for a one-character separator: always at least one part
RECURSIVE SplitFrom(_, _, _)
SplitFrom(s, c, cur) ==
    IF s = <<>> THEN <<cur>>
    ELSE IF Head(s) = c THEN <<cur>> \o SplitFrom(Tail(s), c, <<>>)
    ELSE SplitFrom(Tail(s), c, Append(cur, Head(s)))

Split(s, c) == SplitFrom(s, c, <<>>)

\* str.split() with no argument: runs of whitespace separate, no empty parts
RECURSIVE SplitWsFrom(_, _)
SplitWsFrom(s, cur) ==
    IF s = <<>> THEN (IF cur = <<>> THEN <<>> ELSE <<cur>>)
    ELSE IF IsSpace(Head(s))
         THEN (IF cur = <<>> THEN <<>> ELSE <<cur>>) \o SplitWsFrom(Tail(s), <<>>)
         ELSE SplitWsFrom(Tail(s), Append(cur, Head(s)))

SplitWs(s) == SplitWsFrom(s, <<>>)

\* sep.join(parts)
RECURSIVE Join(_, _)
Join(parts, sep) ==
    IF parts = <<>> THEN <<>>
    ELSE IF Len(parts) = 1 THEN parts[1]
    ELSE parts[1] \o sep \o Join(Tail(parts), sep)

\* reversed(list)
Reversed(parts) == [i \in 1..Len(parts) |-> parts[Len(parts) + 1 - i]]

\* list[2:-1]
Slice2ToLast(parts) == IF Len(parts) >= 4 THEN SubSeq(parts, 3, Len(parts) - 1) ELSE <<>>

\* re.split(r"-(N|U|D)-", lease, maxsplit=1): <<before, marker, after>> at the
\* first match, <<lease>> when nothing matches
MarkerAt(s, i) == i + 2 <= Len(s) /\ s[i] = "-" /\ s[i + 1] \in {"N", "U", "D"} /\ s[i + 2] = "-"

ReSplitMarker(s) ==
    IF \E i \in 1..Len(s) : MarkerAt(s, i)
    THEN LET i == CHOOSE j \in 1..Len(s) : MarkerAt(s, j) /\ \A k \in 1..(j - 1) : ~MarkerAt(s, k)
         IN <<SubSeq(s, 1, i - 1), <<s[i + 1]>>, SubSeq(s, i + 3, Len(s))>>
    ELSE <<s>>

(***************************************************************************)
(* Configuration (the values of the environment the process was started    *)
(* with) and the answers the external commands can give.                   *)
(***************************************************************************)
\* SCOPES: one private (10.x) and one public scope
scopes == << <<"1", "0", ".", "1", ".", "2", ".", "0">>,
             <<"1", "9", "2", ".", "1", "6", "8", ".", "1", ".", "0">> >>

\* DNS_ZONE
dns_zone == <<"c", "o", "r", "p", ".", "l", "o", "c", "a", "l">>

\* DNS_REVERSE_ZONES
dns_reverse_zones ==
    << <<"2", ".", "1", ".", "1", "0", ".", "i", "n", "-", "a", "d", "d", "r", ".", "a", "r", "p", "a">>,
       <<"1", ".", "1", "6", "8", ".", "1", "9", "2", ".", "i", "n", "-", "a", "d", "d", "r", ".", "a", "r", "p", "a">> >>

\* Lines of a `netsh dhcp server scope <scope> show clients 1` listing:
\* ip - mask - mac -expiry -type- client name
LeaseA == <<"1", "0", ".", "1", ".", "2", ".", "5", " ", "-", " ", "2", "5", "5", ".", "2", "5", "5", ".",
            "2", "5", "5", ".", "0", " ", "-", " ", "0", "0", "-", "1", "1", "-", "2", "2", "-", "3", "3",
            "-", "4", "4", "-", "5", "5", " ", "-", "I", "N", "A", "C", "T", "I", "V", "E", " ", "-", "D",
            "-", " ", "p", "c", "1", ".", "c", "o", "r", "p", ".", "l", "o", "c", "a", "l">>

LeaseB == <<"1", "0", ".", "1", ".", "2", ".", "6", " ", "-", " ", "2", "5", "5", ".", "2", "5", "5", ".",
            "2", "5", "5", ".", "0", " ", "-", " ", "6", "6", "-", "7", "7", "-", "8", "8", "-", "9", "9",
            "-", "a", "a", "-", "b", "b", " ", "-", "I", "N", "A", "C", "T", "I", "V", "E", " ", "-", "N",
            "-", " ", "P", "C", "2", ".", "c", "o", "r", "p", ".", "l", "o", "c", "a", "l">>

\* a second client reported with the MAC of LeaseA
LeaseDup == <<"1", "0", ".", "1", ".", "2", ".", "7", " ", "-", " ", "2", "5", "5", ".", "2", "5", "5", ".",
              "2", "5", "5", ".", "0", " ", "-", " ", "0", "0", "-", "1", "1", "-", "2", "2", "-", "3", "3",
              "-", "4", "4", "-", "5", "5", " ", "-", "I", "N", "A", "C", "T", "I", "V", "E", " ", "-", "U",
              "-", " ", "p", "c", "3">>

\* a client whose unique id has seven octets
LeaseLong == <<"1", "0", ".", "1", ".", "2", ".", "9", " ", "-", " ", "2", "5", "5", ".", "2", "5", "5", ".",
               "2", "5", "5", ".", "0", " ", "-", " ", "0", "0", "-", "1", "1", "-", "2", "2", "-", "3", "3",
               "-", "4", "4", "-", "5", "5", "-", "6", "6", " ", "-", "I", "N", "A", "C", "T", "I", "V", "E",
               " ", "-", "D", "-", " ", "p", "c", "5", ".", "c", "o", "r", "p", ".", "l", "o", "c", "a", "l">>

\* a line that does not begin with 1
LeaseNotActive == <<"x", " ", "-", "D", "-", " ", "p", "c", "9">>

\* a line that begins with 1 and has no -N-, -U- or -D-
LeaseNoMarker == <<"1", "0", ".", "1", ".", "2", ".", "8", " ", "-", " ", "n", "o", " ", "m", "a", "r",
                   "k", "e", "r">>

\* a line with nothing after the marker
LeaseNoClient == <<"1", "0", ".", "1", ".", "2", ".", "8", " ", "-", " ", "2", "5", "5", ".", "2", "5", "5",
                   ".", "2", "5", "5", ".", "0", " ", "-", " ", "c", "c", "-", "d", "d", "-", "e", "e",
                   "-", "f", "f", "-", "0", "0", "-", "1", "1", " ", "-", "I", "N", "A", "C", "T", "I",
                   "V", "E", " ", "-", "D", "-">>

\* a line cut short: no mask, no MAC and no expiry before the marker
LeaseShort == <<"1", " ", "-", "U", "-", " ", "p", "c", "4", ".", "c", "o", "r", "p", ".", "l", "o", "c",
                "a", "l">>

\* the lines that are not of the form ip - mask - mac -expiry -type- name
MalformedLines == {LeaseNotActive, LeaseNoMarker, LeaseNoClient, LeaseShort}

\* the lines a listing can hold
LeaseLines == {LeaseA, LeaseB, LeaseDup, LeaseLong} \cup MalformedLines

\* What future.result() of one scope's subprocess.run gives: it raises (the
\* process could not be started), or it returns a CompletedProcess whose
\* returncode the code never reads.
DhcpResults ==
    { [raised |-> TRUE,  returncode |-> 1, stdout |-> <<>>],
      [raised |-> FALSE, returncode |-> 1, stdout |-> <<>>],
      [raised |-> FALSE, returncode |-> 0, stdout |-> <<LeaseA, LeaseB>>],
      [raised |-> FALSE, returncode |-> 0, stdout |-> <<LeaseLong, LeaseA, LeaseDup>>],
      [raised |-> FALSE, returncode |-> 0,
       stdout |-> <<LeaseNotActive, LeaseNoMarker, LeaseNoClient, LeaseShort>>] }

\* The results of the commands of all scopes: any result for the first scope;
\* for the later scopes a raise or the listing of two leases
DhcpFutures ==
    {f \in [1..Len(scopes) -> DhcpResults] :
        \A j \in 2..Len(scopes) : f[j].raised \/ f[j].stdout = <<LeaseA, LeaseB>>}

\* JSON null (no text has this one-element form)
Null == <<"null">>

\* json.loads(stdout): valid tells whether it returns, records is what it
\* returns; a failed command prints nothing on stdout, which json.loads rejects
NotJson == [returncode |-> 1, valid |-> FALSE, records |-> <<>>]

Json(records) == [returncode |-> 0, valid |-> TRUE, records |-> records]

\* The record set of the forward zone as ConvertTo-Json prints it
FwdRecords ==
    << [Name |-> dns_zone, Hostname |-> <<"p", "c", "1">>, Type |-> <<"A">>,
        Data |-> <<"1", "0", ".", "1", ".", "2", ".", "5">>],
       [Name |-> dns_zone, Hostname |-> <<"@">>, Type |-> <<"S", "O", "A">>, Data |-> Null] >>

DnsFwdResults == {NotJson, Json(FwdRecords)}

\* The record set of a reverse zone: Name is the zone the command was given
\* and the PTR target is a name of the forward zone, in the server's spelling,
\* in the first reverse zone and a name of another domain in the others
RevRecords(zone) ==
    << [Name |-> zone, Hostname |-> <<"5">>, Type |-> <<"P", "T", "R">>,
        Data |-> IF zone = dns_reverse_zones[1]
                 THEN <<"P", "C", "1", ".", "C", "o", "r", "p", ".", "L", "o", "c", "a", "l", ".">>
                 ELSE <<"m", "a", "i", "l", ".", "e", "x", "a", "m", "p", "l", "e", ".", "o", "r", "g", ".">>] >>

DnsRevResults(zone) == {NotJson, Json(RevRecords(zone))}

(***************************************************************************)
(* Tables and rows.                                                        *)
(***************************************************************************)
\* the scope strings a model class is asked for
RouterScopes ==
    {scopes[j] : j \in 1..Len(scopes)} \cup
    { <<"1", "0", ".", "1", ".", "2", ".", "2", "5", "5">>,
      <<"1", "0", ".", "0", ".", "1", ".", "0">>,
      <<"1", "0", "0", ".", "6", "4", ".", "3", ".", "0">>,
      <<"1", "7", "2", ".", "1", "6", ".", "5", ".", "0">>,
      <<"9", ".", "1", "0", ".", "1", "1", ".", "0">> }

\* the second dotted token in place of the third
TableNameSecondToken(scope) ==
    IF StartsWith(scope, <<"1", "0">>)
    THEN <<"t", "e", "m", "p", "_", "p", "r", "i", "v", "a", "t", "e", "_">> \o Split(scope, ".")[2]
    ELSE <<"t", "e", "m", "p", "_", "p", "u", "b", "l", "i", "c", "_">> \o Split(scope, ".")[2]

\* the test of the prefix made on the first character only
TableNamePrefixOne(scope) ==
    IF StartsWith(scope, <<"1">>)
    THEN <<"t", "e", "m", "p", "_", "p", "r", "i", "v", "a", "t", "e", "_">> \o Split(scope, ".")[3]
    ELSE <<"t", "e", "m", "p", "_", "p", "u", "b", "l", "i", "c", "_">> \o Split(scope, ".")[3]

\* DHCPModel.__tablename__
TableName(scope) ==
    IF StartsWith(scope, <<"1", "0">>)
    THEN <<"t", "e", "m", "p", "_", "p", "r", "i", "v", "a", "t", "e", "_">> \o Split(scope, ".")[3]
    ELSE <<"t", "e", "m", "p", "_", "p", "u", "b", "l", "i", "c", "_">> \o Split(scope, ".")[3]

\* __tablename__ of the model class of every scope string
TableNameOf == [scope \in RouterScopes |-> TableName(scope)]

\* _model_cache = {}
NoModels == [scope \in {} |-> <<>>]

\* create_dhcp_models(scopes): _model_cache after the call; a scope not yet in
\* the cache gets a new model class, whose table name is computed then
create_dhcp_models(cache, scs) ==
    [scope \in DOMAIN cache \cup {scs[i] : i \in 1..Len(scs)} |->
        IF scope \in DOMAIN cache THEN cache[scope] ELSE TableNameOf[scope]]

\* DNSModel.__tablename__
DnsTableName == <<"t", "e", "m", "p", "_", "d", "n", "s", "_", "r", "e", "c", "o", "r", "d", "s">>

\* the tables of create_dhcp_models(config.scopes), then the DNS table, in the
\* order initialize_and_create_tables drops and creates them
ModelTables == [i \in 1..(Len(scopes) + 1) |->
                    IF i <= Len(scopes) THEN TableName(scopes[i]) ELSE DnsTableName]

TableNames == {ModelTables[i] : i \in 1..Len(ModelTables)}

\* a table that does not exist, and one that exists with these rows
Absent == [exists |-> FALSE, rows |-> <<>>]

Table(rows) == [exists |-> TRUE, rows |-> rows]

\* without the suffix of a long MAC
LeaseOfNoSuffix(lease, scope) ==
    IF ~StartsWith(lease, <<"1">>) THEN <<>>
    ELSE LET lease_parts == ReSplitMarker(lease) IN
         IF Len(lease_parts) <= 1 THEN <<>>
         ELSE LET small_lease_parts == Split(lease_parts[1], "-")
                  joined == Join([i \in 1..Len(Slice2ToLast(small_lease_parts)) |->
                                     Upper(Strip(Slice2ToLast(small_lease_parts)[i]))], <<":">>)
              IN << [ip           |-> Strip(small_lease_parts[1]),
                     mac_address  |-> joined,
                     lease_status |-> Strip(small_lease_parts[Len(small_lease_parts)]),
                     hostname     |-> Lower(Split(Strip(lease_parts[3]), ".")[1]),
                     subnet       |-> SplitWs(scope)[1]] >>

\* without the test of the first character
LeaseOfAnyLine(lease, scope) ==
    LET lease_parts == ReSplitMarker(lease) IN
    IF Len(lease_parts) <= 1 THEN <<>>
    ELSE LET small_lease_parts == Split(lease_parts[1], "-")
             joined == Join([i \in 1..Len(Slice2ToLast(small_lease_parts)) |->
                                Upper(Strip(Slice2ToLast(small_lease_parts)[i]))], <<":">>)
         IN << [ip           |-> Strip(small_lease_parts[1]),
                mac_address  |-> IF Len(joined) > 17 THEN joined \o <<":", "X", "X">> ELSE joined,
                lease_status |-> Strip(small_lease_parts[Len(small_lease_parts)]),
                hostname     |-> Lower(Split(Strip(lease_parts[3]), ".")[1]),
                subnet       |-> SplitWs(scope)[1]] >>

\* lease_status taken from the marker the line is split at
LeaseOfStatusMarker(lease, scope) ==
    IF ~StartsWith(lease, <<"1">>) THEN <<>>
    ELSE LET lease_parts == ReSplitMarker(lease) IN
         IF Len(lease_parts) <= 1 THEN <<>>
         ELSE LET small_lease_parts == Split(lease_parts[1], "-")
                  joined == Join([i \in 1..Len(Slice2ToLast(small_lease_parts)) |->
                                     Upper(Strip(Slice2ToLast(small_lease_parts)[i]))], <<":">>)
              IN << [ip           |-> Strip(small_lease_parts[1]),
                     mac_address  |-> IF Len(joined) > 17 THEN joined \o <<":", "X", "X">> ELSE joined,
                     lease_status |-> lease_parts[2],
                     hostname     |-> Lower(Split(Strip(lease_parts[3]), ".")[1]),
                     subnet       |-> SplitWs(scope)[1]] >>

\* The entries one line of a scope's listing adds: none for a line the code
\* passes over, one otherwise
LeaseOf(lease, scope) ==
    IF ~StartsWith(lease, <<"1">>) THEN <<>>
    ELSE LET lease_parts == ReSplitMarker(lease) IN
         IF Len(lease_parts) <= 1 THEN <<>>
         ELSE LET small_lease_parts == Split(lease_parts[1], "-")
                  joined == Join([i \in 1..Len(Slice2ToLast(small_lease_parts)) |->
                                     Upper(Strip(Slice2ToLast(small_lease_parts)[i]))], <<":">>)
              IN << [ip           |-> Strip(small_lease_parts[1]),
                     mac_address  |-> IF Len(joined) > 17 THEN joined \o <<":", "X", "X">> ELSE joined,
                     lease_status |-> Strip(small_lease_parts[Len(small_lease_parts)]),
                     hostname     |-> Lower(Split(Strip(lease_parts[3]), ".")[1]),
                     subnet       |-> SplitWs(scope)[1]] >>

\* LeaseOf, tabulated for every line a listing can hold and every scope number
Leases == [lease \in LeaseLines |-> [j \in 1..Len(scopes) |-> LeaseOf(lease, scopes[j])]]

\* str(record.get("Data", "")): str(None) is the text None
PyStr(v) == IF v = Null THEN <<"N", "o", "n", "e">> ELSE v

\* The DNSModel entry of one forward-zone record
FwdEntryOf(record) ==
    [name        |-> Strip(record.Name),
     hostname    |-> Strip(record.Hostname),
     record_type |-> Strip(record.Type),
     data        |-> Strip(PyStr(record.Data))]

\* the ending compared as it is spelled
RevEntryOfCaseSensitive(record, zone) ==
    LET data        == Strip(PyStr(record.Data))
        reversed_ip == Join(Reversed(Split(DropLast(zone, 13), ".")), <<".">>)
        suffix      == <<".">> \o dns_zone \o <<".">>
    IN [name        |-> Strip(record.Name),
        hostname    |-> IF EndsWith(data, suffix)
                        THEN DropLast(data, Len(dns_zone) + 2)
                        ELSE data,
        record_type |-> Strip(record.Type),
        data        |-> reversed_ip \o <<".">> \o Strip(record.Hostname)]

\* The DNSModel entry of one reverse-zone record
RevEntryOf(record, zone) ==
    LET data        == Strip(PyStr(record.Data))
        reversed_ip == Join(Reversed(Split(DropLast(zone, 13), ".")), <<".">>)
        suffix      == <<".">> \o Lower(dns_zone) \o <<".">>
    IN [name        |-> Strip(record.Name),
        hostname    |-> IF EndsWith(Lower(data), suffix)
                        THEN DropLast(data, Len(dns_zone) + 2)
                        ELSE data,
        record_type |-> Strip(record.Type),
        data        |-> reversed_ip \o <<".">> \o Strip(record.Hostname)]

(***************************************************************************)
(* Exceptions: the chain of types, from the one that propagates to the one *)
(* first raised, and the targets and keys the message names (each handler  *)
(* formats the exception it caught into the message of the one it raises). *)
(***************************************************************************)
NoError == [types |-> <<>>, names |-> {}]

Raise(type) == [types |-> <<type>>, names |-> {}]

\* except Exception as e: raise type(f"... {name}: {e}")
Wrap(e, type, name) == [types |-> <<type>> \o e.types, names |-> e.names \cup {name}]

\* except Exception as e: raise RuntimeError(f"Error occurred during execution: {e}")
WrapCycle(e) == [types |-> <<"RuntimeError">> \o e.types, names |-> e.names]

(***************************************************************************)
(* Time.  timedelta.seconds is the seconds field of a normalised           *)
(* timedelta, 0 <= seconds < 86400, not the total number of seconds.       *)
(* A duration is kept exactly below two days; from there on only its       *)
(* seconds field and the fact that it exceeds a day are kept.              *)
(***************************************************************************)
DaySeconds == 86400

Advance(t, d) == IF t + d >= 2 * DaySeconds THEN t + d - DaySeconds ELSE t + d

Seconds(t) == t % DaySeconds

\* the intervals the process is started with (-i)
Intervals == {0, 2}

\* the same, and an interval of one day
DayIntervals == Intervals \cup {DaySeconds}

\* how long time.sleep(1) can take, in seconds: the second asked for, or half a
\* day when the process is stopped meanwhile
SleepTimes == {1, DaySeconds \div 2}

\* how long a collection cycle can take, in seconds
CycleTimes == {0, 1}

\* the cycle counter counts up to MaxCycles and stays there
MaxCycles == 2

VARIABLES
    interval,      \* run(interval)
    is_last_run,   \* run: is_last_run
    pc,            \* where run() is: loop, tables, collect, sleep, done, crashed
    elapsed,       \* datetime.now() - last_runtime, in seconds
    cycles,        \* number of calls of _get_data so far
    sinceStart,    \* seconds since the latest call of _get_data began
    error,         \* the exception that left run(), if any
    tables,        \* the database: table name -> rows in insertion order, or Absent
    prev_tables,   \* the database as it was when the latest _get_data began
    initStep,      \* initialize_and_create_tables: next drop (odd) or create (even)
    dhcp,          \* _get_dhcp_data
    fwd,           \* _get_dns_forward_data
    rev,           \* _get_dns_reverse_data
    model_cache    \* DHCPModel._model_cache: scope -> table name of its model class

vars == <<interval, is_last_run, pc, elapsed, cycles, sinceStart, error, tables,
          prev_tables, initStep, dhcp, fwd, rev, model_cache>>

sched == <<interval, is_last_run, pc, elapsed, cycles, sinceStart, error>>

IdleDhcp == [pc |-> "idle", futures |-> <<>>, i |-> 0, k |-> 0, err |-> NoError]

IdleFwd == [pc |-> "idle", result |-> Json(<<>>), k |-> 0, err |-> NoError]

IdleRev == [pc |-> "idle", futures |-> <<>>, i |-> 0, k |-> 0, err |-> NoError]

\* a database no cycle has written to
FreshTables == [t \in TableNames |-> Absent]

\* a database an earlier run of the program has filled: two clients in the
\* first scope, another client in each of the later ones
FilledTables ==
    [t \in TableNames |->
        IF t = DnsTableName
        THEN Table(<<FwdEntryOf(FwdRecords[1])>>)
        ELSE LET j == CHOOSE x \in 1..Len(scopes) : ModelTables[x] = t
             IN Table(IF j = 1 THEN Leases[LeaseA][j] \o Leases[LeaseB][j] ELSE Leases[LeaseLong][j])]

\* a start at which a cycle is already due: last_runtime one interval back
InitWithDueAtStart(intervals) ==
    /\ interval \in intervals
    /\ is_last_run = FALSE
    /\ pc = "loop"
    /\ elapsed = interval
    /\ cycles = 0
    /\ sinceStart = 0
    /\ error = NoError
    /\ tables \in {FreshTables, FilledTables}
    /\ prev_tables = tables
    /\ initStep = 0
    /\ dhcp = IdleDhcp
    /\ fwd = IdleFwd
    /\ rev = IdleRev
    /\ model_cache = NoModels

InitWith(intervals) ==
    /\ interval \in intervals
    /\ is_last_run = FALSE
    /\ pc = "loop"
    /\ elapsed = 0
    /\ cycles = 0
    /\ sinceStart = 0
    /\ error = NoError
    /\ tables \in {FreshTables, FilledTables}
    /\ prev_tables = tables
    /\ initStep = 0
    /\ dhcp = IdleDhcp
    /\ fwd = IdleFwd
    /\ rev = IdleRev
    /\ model_cache = NoModels

Init == InitWith(Intervals)

InitDay == InitWith(DayIntervals)

(***************************************************************************)
(* The database.                                                           *)
(***************************************************************************)
\* session.add(new_entry): queues the entry, the INSERT is sent at commit
SessionAddRaises(entry) == FALSE

\* a uniqueness that tells apart the rows of different scopes
LeaseCommitFailsPerSubnet(rows, entry) ==
    \E n \in 1..Len(rows) : /\ rows[n].mac_address = entry.mac_address
                            /\ rows[n].subnet = entry.subnet

\* session_scope: commit of one DHCPModel entry fails when its mac_address is
\* already in the table (unique=True)
LeaseCommitFails(rows, entry) == \E n \in 1..Len(rows) : rows[n].mac_address = entry.mac_address

\* session_scope: DNSModel has no unique column
DnsCommitFails(rows, entry) == FALSE

(***************************************************************************)
(* run(): the scheduler.                                                   *)
(***************************************************************************)
\* the comparison off by one second
DueTooEarly == Seconds(elapsed) >= interval - 1

\* (datetime.now() - last_runtime).seconds >= interval
Due == Seconds(elapsed) >= interval

\* _get_data is called: initialize_and_create_tables comes first
BeginGetData ==
    /\ pc' = "tables"
    /\ initStep' = 1
    /\ cycles' = IF cycles < MaxCycles THEN cycles + 1 ELSE cycles
    /\ sinceStart' = 0
    /\ prev_tables' = tables
    /\ dhcp' = IdleDhcp
    /\ fwd' = IdleFwd
    /\ rev' = IdleRev
    /\ model_cache' = create_dhcp_models(model_cache, scopes)
    /\ UNCHANGED <<interval, error, tables>>

\* the single-shot branch without is_last_run = True
RunSingleShotNoFlag ==
    /\ pc = "loop"
    /\ ~is_last_run
    /\ interval = 0
    /\ is_last_run' = is_last_run
    /\ elapsed' = elapsed
    /\ BeginGetData

\* while not is_last_run: if interval == 0: is_last_run = True; _get_data()
RunSingleShot ==
    /\ pc = "loop"
    /\ ~is_last_run
    /\ interval = 0
    /\ is_last_run' = TRUE
    /\ elapsed' = elapsed
    /\ BeginGetData

\* elif (now - last_runtime).seconds >= interval: last_runtime = now; _get_data()
RunDue ==
    /\ pc = "loop"
    /\ ~is_last_run
    /\ interval # 0
    /\ Due
    /\ elapsed' = 0
    /\ is_last_run' = is_last_run
    /\ BeginGetData

\* neither branch: go on to the sleep
RunNotDue ==
    /\ pc = "loop"
    /\ ~is_last_run
    /\ interval # 0
    /\ ~Due
    /\ pc' = "sleep"
    /\ UNCHANGED <<model_cache, interval, is_last_run, elapsed, cycles, sinceStart, error, tables,
                   prev_tables, initStep, dhcp, fwd, rev>>

\* the while condition fails: run() returns
RunExit ==
    /\ pc = "loop"
    /\ is_last_run
    /\ pc' = "done"
    /\ UNCHANGED <<model_cache, interval, is_last_run, elapsed, cycles, sinceStart, error, tables,
                   prev_tables, initStep, dhcp, fwd, rev>>

\* if interval != 0: ... time.sleep(1)
Sleep ==
    /\ pc = "sleep"
    /\ \E d \in SleepTimes :
          /\ elapsed' = Advance(elapsed, d)
          /\ sinceStart' = Advance(sinceStart, d)
    /\ pc' = "loop"
    /\ UNCHANGED <<model_cache, interval, is_last_run, cycles, error, tables, prev_tables, initStep,
                   dhcp, fwd, rev>>

(***************************************************************************)
(* initialize_and_create_tables: every table is dropped, then created.     *)
(***************************************************************************)
\* the drop left out: the table keeps the rows it has
DropTableKeepsRows ==
    /\ pc = "tables"
    /\ initStep % 2 = 1
    /\ tables' = tables
    /\ initStep' = initStep + 1
    /\ UNCHANGED <<sched, model_cache, prev_tables, dhcp, fwd, rev>>

\* model.__table__.drop(bind=db_engine, checkfirst=True)
DropTable ==
    /\ pc = "tables"
    /\ initStep % 2 = 1
    /\ tables' = [tables EXCEPT ![ModelTables[(initStep + 1) \div 2]] = Absent]
    /\ initStep' = initStep + 1
    /\ UNCHANGED <<sched, model_cache, prev_tables, dhcp, fwd, rev>>

\* model.__table__.create(bind=db_engine, checkfirst=True)
CreateTable ==
    /\ pc = "tables"
    /\ initStep % 2 = 0
    /\ tables' = [tables EXCEPT ![ModelTables[initStep \div 2]] =
                      IF @.exists THEN @ ELSE Table(<<>>)]
    /\ IF initStep < 2 * Len(ModelTables)
       THEN /\ initStep' = initStep + 1
            /\ pc' = pc
       ELSE /\ initStep' = 0
            /\ pc' = "collect"
    /\ UNCHANGED <<model_cache, interval, is_last_run, elapsed, cycles, sinceStart, error,
                   prev_tables, dhcp, fwd, rev>>

(***************************************************************************)
(* _get_dhcp_data                                                          *)
(***************************************************************************)
\* every scope's command is submitted to the executor
DhcpSubmit ==
    /\ pc = "collect"
    /\ dhcp.pc = "idle"
    /\ \E f \in DhcpFutures :
          dhcp' = [pc |-> "await", futures |-> f, i |-> 1, k |-> 0, err |-> NoError]
    /\ UNCHANGED <<sched, model_cache, tables, prev_tables, initStep, fwd, rev>>

\* the loop over zip(futures, scopes) goes on to the next scope, or ends
DhcpNextScope(d) ==
    IF d.i < Len(scopes)
    THEN [d EXCEPT !.pc = "await", !.i = d.i + 1, !.k = 0]
    ELSE [d EXCEPT !.pc = "done"]

\* the loop over the lines left after the first line
DhcpNextLineFirstOnly(d) ==
    IF d.k < 1 /\ d.k < Len(d.futures[d.i].stdout)
    THEN [d EXCEPT !.pc = "lines", !.k = d.k + 1]
    ELSE DhcpNextScope(d)

\* the loop over the lines goes on to the next line, or ends
DhcpNextLine(d) ==
    IF d.k < Len(d.futures[d.i].stdout)
    THEN [d EXCEPT !.pc = "lines", !.k = d.k + 1]
    ELSE DhcpNextScope(d)

\* a variant that invokes the command of a failed scope a second time
DhcpResultRetry ==
    /\ pc = "collect"
    /\ dhcp.pc = "await"
    /\ dhcp' = IF dhcp.futures[dhcp.i].raised
               THEN [dhcp EXCEPT !.futures[dhcp.i] =
                        [raised |-> FALSE, returncode |-> 1, stdout |-> <<>>]]
               ELSE DhcpNextLine(dhcp)
    /\ UNCHANGED <<sched, model_cache, tables, prev_tables, initStep, fwd, rev>>

\* current_scope = future.result()
DhcpResult ==
    /\ pc = "collect"
    /\ dhcp.pc = "await"
    /\ dhcp' = IF dhcp.futures[dhcp.i].raised
               THEN [dhcp EXCEPT !.pc = "raised",
                                 !.err = Wrap(Raise("OSError"), "RuntimeError", scopes[dhcp.i])]
               ELSE DhcpNextLine(dhcp)
    /\ UNCHANGED <<sched, model_cache, tables, prev_tables, initStep, fwd, rev>>

\* the entries of the line the DHCP adapter is at
DhcpEntries(d) == Leases[d.futures[d.i].stdout[d.k]][d.i]

\* what one line of the listing leads to: "skip" for a line that gives no
\* entry, "add" when session.add raises, "commit" when the commit fails, "ok"
LeaseOutcome(d, tbls) ==
    IF DhcpEntries(d) = <<>> THEN "skip"
    ELSE IF SessionAddRaises(DhcpEntries(d)[1]) THEN "add"
    ELSE IF LeaseCommitFails(tbls[ModelTables[d.i]].rows, DhcpEntries(d)[1]) THEN "commit"
    ELSE "ok"

\* except Exception as e: raise DBException(f"Error adding {ip_address} ...") inside
\* except Exception as e: raise RuntimeError(f"Error processing scope {scope}: {e}");
\* the commit is made when the with block is left, outside the inner try
DhcpLeaseError(d, outcome) ==
    IF outcome = "add"
    THEN Wrap(Wrap(Raise("Exception"), "DBException", DhcpEntries(d)[1].ip),
              "RuntimeError", scopes[d.i])
    ELSE Wrap(Raise("IntegrityError"), "RuntimeError", scopes[d.i])

\* one line of the listing: parsed, and its entry added and committed
DhcpLease ==
    /\ pc = "collect"
    /\ dhcp.pc = "lines"
    /\ dhcp' = IF LeaseOutcome(dhcp, tables) \in {"skip", "ok"}
               THEN DhcpNextLine(dhcp)
               ELSE [dhcp EXCEPT !.pc = "raised",
                                 !.err = DhcpLeaseError(dhcp, LeaseOutcome(dhcp, tables))]
    /\ tables' = IF LeaseOutcome(dhcp, tables) = "ok"
                 THEN [tables EXCEPT ![ModelTables[dhcp.i]].rows = Append(@, DhcpEntries(dhcp)[1])]
                 ELSE tables
    /\ model_cache' = IF DhcpEntries(dhcp) = <<>>
                      THEN model_cache
                      ELSE create_dhcp_models(model_cache, <<scopes[dhcp.i]>>)
    /\ UNCHANGED <<sched, prev_tables, initStep, fwd, rev>>

(***************************************************************************)
(* _get_dns_forward_data                                                   *)
(***************************************************************************)
FwdNextRecord(f) ==
    IF f.k < Len(f.result.records)
    THEN [f EXCEPT !.pc = "records", !.k = f.k + 1]
    ELSE [f EXCEPT !.pc = "done"]

\* subprocess.run(...) and json.loads(dns_records.stdout)
FwdRun ==
    /\ pc = "collect"
    /\ fwd.pc = "idle"
    /\ \E r \in DnsFwdResults :
          fwd' = IF ~r.valid
                 THEN [fwd EXCEPT !.pc = "raised", !.result = r,
                                  !.err = Raise("JSONDecodeError")]
                 ELSE FwdNextRecord([fwd EXCEPT !.result = r])
    /\ UNCHANGED <<sched, model_cache, tables, prev_tables, initStep, dhcp, rev>>

\* what one DNS record leads to: "add" when session.add raises, "commit" when
\* the commit fails, "ok"
DnsOutcome(entry, tbls) ==
    IF SessionAddRaises(entry) THEN "add"
    ELSE IF DnsCommitFails(tbls[DnsTableName].rows, entry) THEN "commit"
    ELSE "ok"

\* except Exception as e: raise DBException(f"Error adding {name} ..."); nothing
\* in this adapter wraps what the commit raises
FwdRecordError(entry, outcome) ==
    IF outcome = "add"
    THEN Wrap(Raise("Exception"), "DBException", entry.name)
    ELSE Raise("IntegrityError")

\* one record: its entry added and committed
FwdRecord ==
    /\ pc = "collect"
    /\ fwd.pc = "records"
    /\ fwd' = IF DnsOutcome(FwdEntryOf(fwd.result.records[fwd.k]), tables) = "ok"
              THEN FwdNextRecord(fwd)
              ELSE [fwd EXCEPT !.pc = "raised",
                       !.err = FwdRecordError(FwdEntryOf(fwd.result.records[fwd.k]),
                                   DnsOutcome(FwdEntryOf(fwd.result.records[fwd.k]), tables))]
    /\ tables' = IF DnsOutcome(FwdEntryOf(fwd.result.records[fwd.k]), tables) = "ok"
                 THEN [tables EXCEPT ![DnsTableName].rows =
                          Append(@, FwdEntryOf(fwd.result.records[fwd.k]))]
                 ELSE tables
    /\ UNCHANGED <<sched, model_cache, prev_tables, initStep, dhcp, rev>>

(***************************************************************************)
(* _get_dns_reverse_data                                                   *)
(***************************************************************************)
\* every zone's command is submitted to the executor
RevSubmit ==
    /\ pc = "collect"
    /\ rev.pc = "idle"
    /\ \E f \in [1..Len(dns_reverse_zones) -> UNION {DnsRevResults(dns_reverse_zones[z]) :
                                                        z \in 1..Len(dns_reverse_zones)}] :
          /\ \A z \in 1..Len(dns_reverse_zones) : f[z] \in DnsRevResults(dns_reverse_zones[z])
          /\ rev' = [pc |-> "await", futures |-> f, i |-> 1, k |-> 0, err |-> NoError]
    /\ UNCHANGED <<sched, model_cache, tables, prev_tables, initStep, dhcp, fwd>>

RevNextZone(r) ==
    IF r.i < Len(dns_reverse_zones)
    THEN [r EXCEPT !.pc = "await", !.i = r.i + 1, !.k = 0]
    ELSE [r EXCEPT !.pc = "done"]

RevNextRecord(r) ==
    IF r.k < Len(r.futures[r.i].records)
    THEN [r EXCEPT !.pc = "records", !.k = r.k + 1]
    ELSE RevNextZone(r)

\* reverse_dns_records = future.result() and json.loads(reverse_dns_records.stdout)
RevResult ==
    /\ pc = "collect"
    /\ rev.pc = "await"
    /\ rev' = IF ~rev.futures[rev.i].valid
              THEN [rev EXCEPT !.pc = "raised",
                               !.err = Wrap(Raise("JSONDecodeError"), "RuntimeError",
                                            dns_reverse_zones[rev.i])]
              ELSE RevNextRecord(rev)
    /\ UNCHANGED <<sched, model_cache, tables, prev_tables, initStep, dhcp, fwd>>

\* except Exception as e: raise DBException(f"Error adding {name} ...") inside
\* except Exception as e: raise RuntimeError(f"Error processing zone {zone}: {e}")
RevRecordError(entry, zone, outcome) ==
    IF outcome = "add"
    THEN Wrap(Wrap(Raise("Exception"), "DBException", entry.name), "RuntimeError", zone)
    ELSE Wrap(Raise("IntegrityError"), "RuntimeError", zone)

\* the entry of the record the reverse adapter is at
RevEntry(r) == RevEntryOf(r.futures[r.i].records[r.k], dns_reverse_zones[r.i])

\* one record: its entry added and committed
RevRecord ==
    /\ pc = "collect"
    /\ rev.pc = "records"
    /\ rev' = IF DnsOutcome(RevEntry(rev), tables) = "ok"
              THEN RevNextRecord(rev)
              ELSE [rev EXCEPT !.pc = "raised",
                       !.err = RevRecordError(RevEntry(rev), dns_reverse_zones[rev.i],
                                              DnsOutcome(RevEntry(rev), tables))]
    /\ tables' = IF DnsOutcome(RevEntry(rev), tables) = "ok"
                 THEN [tables EXCEPT ![DnsTableName].rows = Append(@, RevEntry(rev))]
                 ELSE tables
    /\ UNCHANGED <<sched, model_cache, prev_tables, initStep, dhcp, fwd>>

(***************************************************************************)
(* _get_data: the three adapters run in an executor; future.result() is    *)
(* taken in the order dhcp, forward, reverse, and the with block is left   *)
(* only when all three have ended.                                         *)
(***************************************************************************)
Ended(a) == a.pc \in {"done", "raised"}

AllEnded == Ended(dhcp) /\ Ended(fwd) /\ Ended(rev)

\* the exception of the first future, in submission order, that raised
FirstRaised ==
    IF dhcp.pc = "raised" THEN dhcp.err
    ELSE IF fwd.pc = "raised" THEN fwd.err
    ELSE rev.err

\* _get_data returns; back in run(): last_runtime = now when interval != 0,
\* and then on to the sleep, or to the loop test when interval = 0
GetDataReturns ==
    /\ pc = "collect"
    /\ AllEnded
    /\ dhcp.pc = "done" /\ fwd.pc = "done" /\ rev.pc = "done"
    /\ \E d \in CycleTimes :
          /\ sinceStart' = Advance(sinceStart, d)
          /\ elapsed' = IF interval # 0 /\ ~is_last_run THEN 0 ELSE Advance(elapsed, d)
    /\ pc' = IF interval # 0 THEN "sleep" ELSE "loop"
    /\ UNCHANGED <<model_cache, interval, is_last_run, cycles, error, tables, prev_tables, initStep,
                   dhcp, fwd, rev>>

\* the exception of the cycle caught and dropped in run()
GetDataRaisesCaught ==
    /\ pc = "collect"
    /\ AllEnded
    /\ ~(dhcp.pc = "done" /\ fwd.pc = "done" /\ rev.pc = "done")
    /\ pc' = IF interval # 0 THEN "sleep" ELSE "loop"
    /\ error' = error
    /\ UNCHANGED <<model_cache, interval, is_last_run, elapsed, cycles, sinceStart, tables, prev_tables,
                   initStep, dhcp, fwd, rev>>

\* _get_data raises: nothing in run() catches it, and the clock is not read again
GetDataRaises ==
    /\ pc = "collect"
    /\ AllEnded
    /\ ~(dhcp.pc = "done" /\ fwd.pc = "done" /\ rev.pc = "done")
    /\ pc' = "crashed"
    /\ error' = WrapCycle(FirstRaised)
    /\ UNCHANGED <<model_cache, interval, is_last_run, elapsed, cycles, sinceStart, tables, prev_tables,
                   initStep, dhcp, fwd, rev>>

Next ==
    \/ RunSingleShot
    \/ RunDue
    \/ RunNotDue
    \/ RunExit
    \/ Sleep
    \/ DropTable
    \/ CreateTable
    \/ DhcpSubmit
    \/ DhcpResult
    \/ DhcpLease
    \/ FwdRun
    \/ FwdRecord
    \/ RevSubmit
    \/ RevResult
    \/ RevRecord
    \/ GetDataReturns
    \/ GetDataRaises

Spec == Init /\ [][Next]_vars

\* every thread that can take a step eventually takes one, and every
\* external command returns
FairSpec == Init /\ [][Next]_vars /\ WF_vars(Next)

DaySpec == InitDay /\ [][Next]_vars /\ WF_vars(Next)

(***************************************************************************)
(* Properties                                                              *)
(***************************************************************************)
InCycle == pc \in {"tables", "collect"}

Range(rows) == {rows[n] : n \in 1..Len(rows)}

\* every external command of the running cycle has been issued
ResultsKnown == InCycle /\ dhcp.pc # "idle" /\ fwd.pc # "idle" /\ rev.pc # "idle"

\* the entries of all lines of the listing of scope number j
ScopeEntries(j) ==
    UNION {Range(Leases[dhcp.futures[j].stdout[n]][j]) : n \in 1..Len(dhcp.futures[j].stdout)}

\* the entries of all records of reverse zone number z
ZoneEntries(z) ==
    {RevEntryOf(rev.futures[z].records[n], dns_reverse_zones[z]) :
        n \in 1..Len(rev.futures[z].records)}

FwdEntries == {FwdEntryOf(fwd.result.records[n]) : n \in 1..Len(fwd.result.records)}

\* the rows the results of the running cycle hold for table t
Collected(t) ==
    IF t = DnsTableName
    THEN FwdEntries \cup UNION {ZoneEntries(z) : z \in 1..Len(dns_reverse_zones)}
    ELSE UNION {ScopeEntries(j) : j \in {x \in 1..Len(scopes) : ModelTables[x] = t}}

\* table t holds the complete dataset of the running cycle
CompleteNew(t) ==
    /\ ResultsKnown
    /\ tables[t].exists
    /\ Range(tables[t].rows) = Collected(t)
    /\ Len(tables[t].rows) = Cardinality(Collected(t))

\* C1: while a cycle is in progress, a reader of any table sees the complete
\* dataset of the previous cycle or the complete dataset of the new cycle,
\* never a missing, empty or partly filled table.
C1_ReaderSeesCompleteDataset ==
    InCycle => \A t \in TableNames : tables[t] = prev_tables[t] \/ CompleteNew(t)

\* C2: when an adapter raised, the cycle ends with the database exactly as it
\* was before the cycle began: nothing written, nothing dropped or recreated.
C2_FailedCycleLeavesStorage ==
    pc = "crashed" => tables = prev_tables

\* C3: in repeating mode a failed cycle does not end the scheduler: run() is
\* never left by the cycle's exception.
C3_RepeatingSurvivesFailure ==
    interval # 0 => pc # "crashed"

\* C4: with interval = 0 exactly one cycle is run, never zero and never two,
\* and then run() ends.
C4_SingleShotRunsOneCycle ==
    /\ [](interval = 0 => cycles <= 1)
    /\ [](interval = 0 /\ pc \in {"done", "crashed"} => cycles = 1)
    /\ <>(interval = 0 => pc \in {"done", "crashed"})

C4_Witness == interval = 0 /\ pc = "done" /\ cycles = 1 /\ tables # prev_tables

\* C5: in repeating mode a cycle that follows another one starts at least
\* interval seconds after that one started.
C5_StartsAtLeastIntervalApart ==
    [][(interval # 0 /\ cycles >= 1 /\ pc = "loop" /\ pc' = "tables") => sinceStart >= interval]_vars

C5_Witness == interval # 0 /\ cycles >= 2 /\ pc = "tables" /\ sinceStart = 0

\* C6: in repeating mode, once a cycle has completed and interval seconds have
\* passed since that cycle started, the next test of the loop starts a cycle.
C6_WaitMeasuredFromStart ==
    [][(interval # 0 /\ cycles >= 1 /\ pc = "loop" /\ ~is_last_run /\ sinceStart >= interval)
          => pc' = "tables"]_vars

\* C7: for every interval > 0, a day or more included, the cycle repeats every
\* interval seconds: a test of the loop made when interval seconds or more
\* have passed since last_runtime starts a cycle.
C7_EveryIntervalRepeats ==
    [][(interval # 0 /\ pc = "loop" /\ ~is_last_run /\ elapsed >= interval) => pc' = "tables"]_vars

\* the DHCP adapter has taken the result of scope number j
DhcpTaken(j) ==
    \/ dhcp.pc = "done"
    \/ dhcp.pc \in {"await", "lines", "raised"} /\ dhcp.i > j
    \/ dhcp.pc \in {"lines", "raised"} /\ dhcp.i = j

\* the reverse adapter has taken the result of zone number z
RevTaken(z) ==
    \/ rev.pc = "done"
    \/ rev.pc \in {"await", "records", "raised"} /\ rev.i > z
    \/ rev.pc \in {"records", "raised"} /\ rev.i = z

Stored(t) == Range(tables[t].rows)

\* C8 as claimed: when an adapter raises at one target, the records of every
\* other target whose invocation succeeded are gathered, wherever it stands
\* in the configured list, and the error names the failing target.
C8_SiblingsGatheredAnyPosition ==
    /\ dhcp.pc = "raised" =>
          /\ \A j \in 1..Len(scopes) :
                (j # dhcp.i /\ ~dhcp.futures[j].raised) => ScopeEntries(j) \subseteq Stored(ModelTables[j])
          /\ dhcp.err.types[1] = "RuntimeError" /\ scopes[dhcp.i] \in dhcp.err.names
    /\ rev.pc = "raised" =>
          /\ \A z \in 1..Len(dns_reverse_zones) :
                (z # rev.i /\ rev.futures[z].valid) => ZoneEntries(z) \subseteq Stored(DnsTableName)
          /\ rev.err.types[1] = "RuntimeError" /\ dns_reverse_zones[rev.i] \in rev.err.names

\* C8 as amended: when an adapter raises at one target, the records of the
\* targets before it in the configured list are gathered and stored, none of
\* the targets after it is processed, and the error names the failing target.
C8_EarlierSiblingsGathered ==
    /\ dhcp.pc = "raised" =>
          /\ \A j \in 1..(dhcp.i - 1) : ScopeEntries(j) \subseteq Stored(ModelTables[j])
          /\ \A j \in (dhcp.i + 1)..Len(scopes) :
                ~DhcpTaken(j) /\ ScopeEntries(j) \cap Stored(ModelTables[j]) = {}
          /\ dhcp.err.types[1] = "RuntimeError" /\ scopes[dhcp.i] \in dhcp.err.names
    /\ rev.pc = "raised" =>
          /\ \A z \in 1..(rev.i - 1) : ZoneEntries(z) \subseteq Stored(DnsTableName)
          /\ \A z \in (rev.i + 1)..Len(dns_reverse_zones) :
                ~RevTaken(z) /\ ZoneEntries(z) \cap Stored(DnsTableName) = {}
          /\ rev.err.types[1] = "RuntimeError" /\ dns_reverse_zones[rev.i] \in rev.err.names

C8_Witness ==
    /\ dhcp.pc = "raised" /\ dhcp.i = 2 /\ ScopeEntries(1) # {}
    /\ rev.pc = "raised" /\ rev.i = 1 /\ ZoneEntries(2) # {}

\* C9: in each of the three adapters, a command that exits non-zero or whose
\* output cannot be parsed makes the adapter raise an error that names the
\* failing scope or zone.
C9_FailedCommandRaisesNamingTarget ==
    /\ \A j \in 1..Len(scopes) :
          (InCycle /\ DhcpTaken(j) /\ (dhcp.futures[j].raised \/ dhcp.futures[j].returncode # 0))
             => (dhcp.pc = "raised" /\ dhcp.i = j /\ scopes[j] \in dhcp.err.names)
    /\ (InCycle /\ fwd.pc # "idle" /\ (fwd.result.returncode # 0 \/ ~fwd.result.valid))
          => (fwd.pc = "raised" /\ dns_zone \in fwd.err.names)
    /\ \A z \in 1..Len(dns_reverse_zones) :
          (InCycle /\ RevTaken(z) /\ (rev.futures[z].returncode # 0 \/ ~rev.futures[z].valid))
             => (rev.pc = "raised" /\ rev.i = z /\ dns_reverse_zones[z] \in rev.err.names)

\* C10: an insert that fails, at the commit too, is raised as a DBException
\* whose message carries the key of the record (the ip of a lease, the name
\* of a DNS record).
C10_FailedInsertRaisesDBException ==
    /\ (dhcp.pc = "raised" /\ dhcp.k > 0) =>
          ("DBException" \in Range(dhcp.err.types) /\ DhcpEntries(dhcp)[1].ip \in dhcp.err.names)
    /\ (fwd.pc = "raised" /\ fwd.k > 0) =>
          ("DBException" \in Range(fwd.err.types)
           /\ FwdEntryOf(fwd.result.records[fwd.k]).name \in fwd.err.names)
    /\ (rev.pc = "raised" /\ rev.k > 0) =>
          ("DBException" \in Range(rev.err.types) /\ RevEntry(rev).name \in rev.err.names)

\* a cycle has completed with no error and no later cycle has begun
CycleCompleted ==
    /\ cycles >= 1
    /\ dhcp.pc = "done" /\ fwd.pc = "done" /\ rev.pc = "done"
    /\ pc \in {"collect", "sleep", "loop", "done"}

\* C11: once a cycle has completed with no error, every table holds exactly
\* the records collected in that cycle, each once, and no row of an earlier
\* cycle.
C11_SnapshotSupersedes ==
    CycleCompleted =>
        \A t \in TableNames :
            /\ tables[t].exists
            /\ Stored(t) = Collected(t)
            /\ Len(tables[t].rows) = Cardinality(Collected(t))

\* a second cycle completed over tables that held rows the cycle did not collect
C11_Witness ==
    /\ CycleCompleted /\ pc = "sleep" /\ cycles >= 2
    /\ \E t \in TableNames : Range(prev_tables[t].rows) \ Collected(t) # {}

(***************************************************************************)
(* The fields of a lease line, read off the line by position.              *)
(***************************************************************************)
HasMarker(line) == \E i \in 1..Len(line) : MarkerAt(line, i)

FirstMarker(line) ==
    CHOOSE i \in 1..Len(line) : MarkerAt(line, i) /\ \A k \in 1..(i - 1) : ~MarkerAt(line, k)

\* the text before the marker, and the text after it
LeftOf(line) == SubSeq(line, 1, FirstMarker(line) - 1)

RightOf(line) == SubSeq(line, FirstMarker(line) + 3, Len(line))

Hyphens(s) == {i \in 1..Len(s) : s[i] = "-"}

Min(S) == CHOOSE x \in S : \A y \in S : x <= y

Max(S) == CHOOSE x \in S : \A y \in S : x >= y

\* the text up to the first c of s, all of s when it has none
UpTo(s, c) ==
    IF \E i \in 1..Len(s) : s[i] = c
    THEN SubSeq(s, 1, Min({i \in 1..Len(s) : s[i] = c}) - 1)
    ELSE s

\* the text between the second hyphen and the last hyphen of s
MiddleOf(s) ==
    IF Cardinality(Hyphens(s)) < 3 THEN <<>>
    ELSE SubSeq(s, Min(Hyphens(s) \ {Min(Hyphens(s))}) + 1, Max(Hyphens(s)) - 1)

\* the text after the last hyphen of s
LastOf(s) == IF Hyphens(s) = {} THEN s ELSE SubSeq(s, Max(Hyphens(s)) + 1, Len(s))

ColonsToHyphens(s) == [i \in 1..Len(s) |-> IF s[i] = ":" THEN "-" ELSE s[i]]

\* for every line a listing can hold: whether it begins with 1 and has a
\* marker, and then its fields
LineFields ==
    [line \in LeaseLines |->
        IF StartsWith(line, <<"1">>) /\ HasMarker(line)
        THEN [lease    |-> TRUE,
              first    |-> Strip(UpTo(line, "-")),
              pairs    |-> Upper(Strip(MiddleOf(LeftOf(line)))),
              last     |-> Strip(LastOf(LeftOf(line))),
              marker   |-> <<line[FirstMarker(line) + 1]>>,
              client   |-> Strip(RightOf(line)),
              label    |-> Lower(UpTo(Strip(RightOf(line)), "."))]
        ELSE [lease |-> FALSE, first |-> <<>>, pairs |-> <<>>, last |-> <<>>,
              marker |-> <<>>, client |-> <<>>, label |-> <<>>]]

\* the DHCP adapter is at a line of a listing
AtLine == pc = "collect" /\ dhcp.pc = "lines"

CurrentLine == dhcp.futures[dhcp.i].stdout[dhcp.k]

CurrentTable == ModelTables[dhcp.i]

HyphensToColons(s) == [i \in 1..Len(s) |-> IF s[i] = "-" THEN ":" ELSE s[i]]

\* the normalised MAC of a line: its hex pairs in upper case joined with ":"
NormalizedMac == [line \in LeaseLines |-> HyphensToColons(LineFields[line].pairs)]

\* C14: the MAC of a parsed lease is the normalised string followed by ":XX",
\* once, when that string is longer than 17 characters, and the normalised
\* string itself when it is not; the record is emitted in both cases.
C14_LongMacGetsOneSuffix ==
    (AtLine /\ LineFields[CurrentLine].lease) =>
        /\ DhcpEntries(dhcp) # <<>>
        /\ Len(NormalizedMac[CurrentLine]) > 17 =>
              DhcpEntries(dhcp)[1].mac_address = NormalizedMac[CurrentLine] \o <<":", "X", "X">>
        /\ Len(NormalizedMac[CurrentLine]) <= 17 =>
              DhcpEntries(dhcp)[1].mac_address = NormalizedMac[CurrentLine]

\* the row of the seven-octet client is stored with its 20 characters and
\* ":XX", beside a row with a MAC of 17 characters
C14_Witness ==
    \E j \in 1..Len(scopes) :
        /\ InCycle /\ Len(tables[ModelTables[j]].rows) >= 2
        /\ Len(tables[ModelTables[j]].rows[1].mac_address) = 23
        /\ EndsWith(tables[ModelTables[j]].rows[1].mac_address, <<":", "X", "X">>)
        /\ Len(tables[ModelTables[j]].rows[2].mac_address) = 17

(***************************************************************************)
(* The model classes alone: create_dhcp_models called again and again,     *)
(* with lists of scope strings, in one process.                            *)
(***************************************************************************)
\* the longest list of scopes of one call
MaxCallLen == 2

RouterCalls == UNION {[1..n -> RouterScopes] : n \in 1..MaxCallLen}

RouterInit == InitWith({0}) /\ tables = FreshTables

\* DHCPModel.create_dhcp_models(scs)
CallCreateDhcpModels ==
    /\ \E scs \in RouterCalls : model_cache' = create_dhcp_models(model_cache, scs)
    /\ UNCHANGED <<sched, tables, prev_tables, initStep, dhcp, fwd, rev>>

RouterNext == CallCreateDhcpModels

RouterSpec == RouterInit /\ [][RouterNext]_vars

\* private_<third dotted token> for a string that begins with 10,
\* public_<third dotted token> for any other
ClaimedNames ==
    [scope \in RouterScopes |->
        IF StartsWith(scope, <<"1", "0">>)
        THEN <<"p", "r", "i", "v", "a", "t", "e", "_">> \o Split(scope, ".")[3]
        ELSE <<"p", "u", "b", "l", "i", "c", "_">> \o Split(scope, ".")[3]]

Scope_10_1_2_255 == <<"1", "0", ".", "1", ".", "2", ".", "2", "5", "5">>

Scope_10_0_1_0 == <<"1", "0", ".", "0", ".", "1", ".", "0">>

AtRevRecord == pc = "collect" /\ rev.pc = "records"

CurrentRevRecord == rev.futures[rev.i].records[rev.k]

\* the subnet prefix each configured reverse zone stands for
ZoneSubnets == << <<"1", "0", ".", "1", ".", "2">>, <<"1", "9", "2", ".", "1", "6", "8", ".", "1">> >>

\* ".<forward zone>." in lower case
ForwardTail == <<".">> \o Lower(dns_zone) \o <<".">>

\* C17: the entry of a reverse-zone record has data = the zone's prefix with
\* its tokens in reverse order, ".", the owner label, and hostname = the PTR
\* target without a trailing ".<forward zone>." when, and only when, the target
\* ends with it, whatever the case of the letters.
C17_ReverseRecordReconstructed ==
    (AtRevRecord /\ CurrentRevRecord.Data # Null) =>
        /\ RevEntry(rev).data = ZoneSubnets[rev.i] \o <<".">> \o CurrentRevRecord.Hostname
        /\ Join(Reversed(Split(ZoneSubnets[rev.i], ".")), <<".">>)
              \o <<".", "i", "n", "-", "a", "d", "d", "r", ".", "a", "r", "p", "a">>
              = dns_reverse_zones[rev.i]
        /\ EndsWith(Lower(CurrentRevRecord.Data), ForwardTail) =>
              /\ Len(RevEntry(rev).hostname) = Len(CurrentRevRecord.Data) - Len(ForwardTail)
              /\ RevEntry(rev).hostname = SubSeq(CurrentRevRecord.Data, 1, Len(RevEntry(rev).hostname))
        /\ ~EndsWith(Lower(CurrentRevRecord.Data), ForwardTail) =>
              RevEntry(rev).hostname = CurrentRevRecord.Data

\* both zones are stored: 10.1.2.5 with the name PC1 cut free of .Corp.Local.
\* and 192.168.1.5 with the whole name of the other domain
C17_Witness ==
    /\ InCycle /\ rev.pc = "done"
    /\ \E n \in 1..Len(tables[DnsTableName].rows) :
          /\ tables[DnsTableName].rows[n].data = <<"1", "0", ".", "1", ".", "2", ".", "5">>
          /\ tables[DnsTableName].rows[n].hostname = <<"P", "C", "1">>
    /\ \E n \in 1..Len(tables[DnsTableName].rows) :
          /\ tables[DnsTableName].rows[n].data = <<"1", "9", "2", ".", "1", "6", "8", ".", "1", ".", "5">>
          /\ tables[DnsTableName].rows[n].hostname =
                <<"m", "a", "i", "l", ".", "e", "x", "a", "m", "p", "l", "e", ".", "o", "r", "g", ".">>

\* the forward adapter is at a record of the zone
AtFwdRecord == pc = "collect" /\ fwd.pc = "records"

CurrentFwdRecord == fwd.result.records[fwd.k]

\* C18: the entry of a forward-zone record carries the trimmed Name, Hostname,
\* Type and Data of the record, and a record whose Data is null (a type the
\* command does not support) gets data = the empty string.
C18_ForwardRecordMapped ==
    AtFwdRecord =>
        /\ FwdEntryOf(CurrentFwdRecord).name = Strip(CurrentFwdRecord.Name)
        /\ FwdEntryOf(CurrentFwdRecord).hostname = Strip(CurrentFwdRecord.Hostname)
        /\ FwdEntryOf(CurrentFwdRecord).record_type = Strip(CurrentFwdRecord.Type)
        /\ CurrentFwdRecord.Data # Null =>
              FwdEntryOf(CurrentFwdRecord).data = Strip(CurrentFwdRecord.Data)
        /\ CurrentFwdRecord.Data = Null => FwdEntryOf(CurrentFwdRecord).data = <<>>

\* the exit code of the process once run() has ended: main() catches nothing,
\* so an exception that leaves run() ends the interpreter with code 1
ExitCode == IF pc = "crashed" THEN 1 ELSE 0

AnyRaised == dhcp.pc = "raised" \/ fwd.pc = "raised" \/ rev.pc = "raised"

\* C19: with interval = 0, a cycle in which an adapter or an insert raised
\* ends run() with an uncaught error (exit code not 0), and a cycle with no
\* error lets run() return normally (exit code 0).
C19_SingleShotExitCode ==
    (interval = 0 /\ cycles = 1 /\ pc \in {"loop", "done", "crashed"}) =>
        /\ AnyRaised => (pc = "crashed" /\ ExitCode # 0 /\ error.types[1] = "RuntimeError")
        /\ ~AnyRaised => (pc \in {"loop", "done"} /\ ExitCode = 0 /\ error = NoError)

\* run() was left by the error of a failed insert
C19_Witness ==
    /\ interval = 0 /\ pc = "crashed" /\ ExitCode = 1
    /\ \E n \in 1..Len(error.types) : error.types[n] = "IntegrityError"

\* C20: the collecting ends as soon as one adapter has raised, without waiting
\* for the adapters still running: once an adapter has raised, _get_data can
\* raise at once, whatever the other adapters are doing.
C20_AbortsAtFirstRaise ==
    (pc = "collect" /\ AnyRaised) => ENABLED GetDataRaises

\* C21: in the DHCP adapter and in the reverse adapter the commands of all
\* configured scopes / zones are submitted before any result is awaited (an
\* adapter that has left its idle position holds one future per target), the
\* futures of a cycle are never replaced by a second invocation, and a cycle
\* ends only after both adapters have submitted.
C21_AllSubmittedOnce ==
    [][ /\ dhcp'.pc # "idle" => Len(dhcp'.futures) = Len(scopes)
        /\ rev'.pc # "idle" => Len(rev'.futures) = Len(dns_reverse_zones)
        /\ (dhcp.pc # "idle" /\ dhcp'.pc # "idle") => dhcp'.futures = dhcp.futures
        /\ (rev.pc # "idle" /\ rev'.pc # "idle") => rev'.futures = rev.futures
        /\ (pc = "collect" /\ pc' # "collect") => (dhcp.pc # "idle" /\ rev.pc # "idle")
      ]_vars

\* a cycle has ended on a failed first scope while the later scope's command
\* had been submitted as well, and the reverse adapter had submitted all zones
C21_Witness ==
    /\ pc = "crashed"
    /\ dhcp.pc = "raised"
    /\ dhcp.i = 1
    /\ dhcp.futures[1].raised
    /\ Len(dhcp.futures) = Len(scopes)
    /\ Len(rev.futures) = Len(dns_reverse_zones)

(***************************************************************************)
(* The inserts of the DHCP adapter on their own: leases of any scope that  *)
(* is routed to a table of the model, in any order, after                  *)
(* initialize_and_create_tables and with the two DNS adapters ended.       *)
(***************************************************************************)
\* a table takes up to MaxRows rows
MaxRows == 2

\* scopes whose model class has the table of a configured scope
StoreScopes == {s \in RouterScopes : TableNameOf[s] \in TableNames \ {DnsTableName}}

\* a well-formed lease, one with the MAC of the first, one with a seven-octet
\* MAC and one with no MAC at all
StoreLines == {LeaseA, LeaseDup, LeaseLong, LeaseShort}

StoreLeases == [s \in StoreScopes |-> [lease \in StoreLines |-> LeaseOf(lease, s)]]

\* single-shot run, first cycle, tables dropped and created, DNS adapters ended
StoreInit ==
    /\ interval = 0
    /\ is_last_run = TRUE
    /\ pc = "collect"
    /\ elapsed = 0
    /\ cycles = 1
    /\ sinceStart = 0
    /\ error = NoError
    /\ tables = [t \in TableNames |-> Table(<<>>)]
    /\ prev_tables \in {FreshTables, FilledTables}
    /\ initStep = 0
    /\ dhcp = [IdleDhcp EXCEPT !.pc = "lines"]
    /\ fwd = [IdleFwd EXCEPT !.pc = "done"]
    /\ rev = [IdleRev EXCEPT !.pc = "done"]
    /\ model_cache = create_dhcp_models(NoModels, scopes)

\* new_entry = model_class(...); with session_scope() as session: session.add(new_entry)
StoreLease ==
    /\ pc = "collect"
    /\ dhcp.pc = "lines"
    /\ \E s \in StoreScopes, lease \in StoreLines :
          LET t == TableNameOf[s]
              entry == StoreLeases[s][lease][1]
              fails == LeaseCommitFails(tables[t].rows, entry)
          IN /\ fails \/ Len(tables[t].rows) < MaxRows
             /\ tables' = IF fails THEN tables
                          ELSE [tables EXCEPT ![t].rows = Append(@, entry)]
             /\ dhcp' = IF fails
                        THEN [dhcp EXCEPT !.pc = "raised",
                                          !.err = Wrap(Raise("IntegrityError"), "RuntimeError", s)]
                        ELSE dhcp
             /\ model_cache' = create_dhcp_models(model_cache, <<s>>)
    /\ UNCHANGED <<sched, prev_tables, initStep, fwd, rev>>

StoreNext ==
    \/ StoreLease
    \/ GetDataRaises

StoreSpec == StoreInit /\ [][StoreNext]_vars

LeaseTables == TableNames \ {DnsTableName}

\* no lease table holds two rows with the same MAC
UniqueMacs(tbls) ==
    \A t \in LeaseTables :
        \A n, m \in 1..Len(tbls[t].rows) :
            tbls[t].rows[n].mac_address = tbls[t].rows[m].mac_address => n = m

HasMac(rows, mac) == \E n \in 1..Len(rows) : rows[n].mac_address = mac

\* C22: no lease table ever holds two rows with the same MAC; a table changes
\* only by one appended row whose MAC was not in it; a rejected insert (the
\* adapter raises) leaves every table unchanged; and after it the adapter
\* inserts nothing more and the cycle can only end with the exception.
C22_MacUniquePerTable ==
    /\ UniqueMacs(tables)
    /\ [][ /\ UniqueMacs(tables')
           /\ \A t \in LeaseTables :
                 tables'[t] # tables[t] =>
                    /\ Len(tables'[t].rows) = Len(tables[t].rows) + 1
                    /\ SubSeq(tables'[t].rows, 1, Len(tables[t].rows)) = tables[t].rows
                    /\ ~HasMac(tables[t].rows, tables'[t].rows[Len(tables'[t].rows)].mac_address)
           /\ (dhcp.pc = "lines" /\ dhcp'.pc = "raised") =>
                 /\ tables' = tables
                 /\ dhcp'.err.types = <<"RuntimeError", "IntegrityError">>
           /\ dhcp.pc = "raised" =>
                 /\ tables' = tables
                 /\ pc' \in {"collect", "crashed"}
         ]_vars

Scope_10_1_2_0 == <<"1", "0", ".", "1", ".", "2", ".", "0">>

\* the cycle has been aborted by a lease of scope 10.1.2.255 whose MAC a row
\* of scope 10.1.2.0 already had in the table the two scopes share, the
\* table holding a row with the empty MAC and the other table one with an
\* overlong MAC
C22_Witness ==
    /\ pc = "crashed"
    /\ dhcp.pc = "raised"
    /\ Scope_10_1_2_255 \in dhcp.err.names
    /\ Len(tables[TableNameOf[Scope_10_1_2_0]].rows) = 2
    /\ \A n \in 1..Len(tables[TableNameOf[Scope_10_1_2_0]].rows) :
          tables[TableNameOf[Scope_10_1_2_0]].rows[n].subnet = Scope_10_1_2_0
    /\ HasMac(tables[TableNameOf[Scope_10_1_2_0]].rows, <<>>)
    /\ \E t \in LeaseTables : \E n \in 1..Len(tables[t].rows) : Len(tables[t].rows[n].mac_address) > 17

\* run() has been called with an interval and no cycle has begun yet
BeforeFirstCycle == interval # 0 /\ cycles = 0

\* C23: with interval N > 0 no cycle runs at startup: as long as no cycle has
\* begun run() is at its loop test or in its sleep, a step only moves between
\* the two and lets time pass, and the step that begins the first cycle is
\* taken at the loop test when at least N seconds have passed since run()
\* was called.
C23_NoCycleAtStartup ==
    [][BeforeFirstCycle =>
          /\ pc \in {"loop", "sleep"}
          /\ pc' \in {"loop", "sleep", "tables"}
          /\ pc' = "tables" => (pc = "loop" /\ sinceStart >= interval /\ cycles' = 1)
          /\ pc' # "tables" =>
                UNCHANGED <<interval, is_last_run, cycles, error, tables, prev_tables,
                            initStep, dhcp, fwd, rev, model_cache>>
      ]_vars

\* the first cycle of a repeating run is collecting
C23_Witness ==
    /\ interval # 0
    /\ cycles = 1
    /\ pc = "collect"
    /\ dhcp.pc # "idle"

====
